---- MODULE Spec2Model ----
(***************************************************************************)
(* Task tracker: an append-only event log (one JSON object per line) and   *)
(* the projection rebuilt from it on every read.  Model of server.js.      *)
(*                                                                         *)
(* Text is modelled at the level of characters: a string is a sequence of  *)
(* characters, the log file is one sequence of characters, and JSON        *)
(* serialisation and parsing work on those sequences.  A character is an   *)
(* atom; the atoms with a meaning of their own are named below, every      *)
(* other atom ("a", "b", "type", "t_", ...) stands for ordinary text.      *)
(***************************************************************************)
EXTENDS Integers, Sequences, FiniteSets, TLC

VARIABLES
    exists,     \* whether the event file exists on disk
    mode,       \* what the file system lets the server do with it
    file,       \* the content of the event file, a sequence of characters
    now,        \* the clock read by Date.now() and new Date()
    req,        \* the last request received
    res,        \* the response to it
    acked,      \* ids returned by a 201 and not named by a DELETE since
    removed,    \* ids named by a DELETE that returned 200
    page        \* the page in the browser: its tasks, clock and lists

vars == <<exists, mode, file, now, req, res, acked, removed, page>>

-----------------------------------------------------------------------------
(* Bounds of the model *)

MaxLines == 3
MaxTime == 1
\* The most tasks the page is given, and the minutes the clock of the page
\* runs before and after 1970-01-01 00:00.
MaxTasks == 3
MaxClock == 2

-----------------------------------------------------------------------------
(* Characters *)

LF == "LF"
SP == "SP"
QUOTE == "QUOTE"
BSL == "BSL"
LBRACE == "{"
RBRACE == "}"
LBRACKET == "["
RBRACKET == "]"
COMMA == ","
COLON == ":"

WhiteSpace == {SP, LF}

NumeralTokens == {"0", "1", "2", "3", "4", "5", "6", "7", "8", "9"}

-----------------------------------------------------------------------------
(* JavaScript values *)

Undef == [t |-> "undefined"]
Null == [t |-> "null"]
Arr == [t |-> "array"]
Str(s) == [t |-> "string", v |-> s]
Bool(b) == [t |-> "boolean", v |-> b]
Num(n) == [t |-> "number", v |-> n]
Obj(o) == [t |-> "object", v |-> o]

EmptyStr == Str(<<>>)

\* The property names the program reads or writes, in the order the
\* handlers write them into an event object.
KeyOrder ==
    <<"type", "id", "name", "date", "time", "description", "priority",
      "createdAt", "deletedAt">>

AllKeys == {KeyOrder[i] : i \in DOMAIN KeyOrder}

EmptyObject == [k \in AllKeys |-> Undef]

\* ToBoolean: what !x, !!x, x ? a : b and x || y test.
Truthy(x) ==
    CASE x.t = "undefined" -> FALSE
      [] x.t = "null" -> FALSE
      [] x.t = "boolean" -> x.v
      [] x.t = "string" -> x.v # <<>>
      [] x.t = "number" -> x.v # "0"
      [] OTHER -> TRUE

\* x || y
OrElse(x, y) == IF Truthy(x) THEN x ELSE y

\* String(x)
ToStr(x) ==
    CASE x.t = "string" -> x.v
      [] x.t = "boolean" -> IF x.v THEN <<"true">> ELSE <<"false">>
      [] x.t = "number" -> <<x.v>>
      [] x.t = "null" -> <<"null">>
      [] x.t = "undefined" -> <<"undefined">>
      [] x.t = "array" -> <<>>
      [] OTHER -> <<"[object Object]">>

RECURSIVE TrimStart(_)
TrimStart(s) ==
    IF s # <<>> /\ Head(s) \in WhiteSpace THEN TrimStart(Tail(s)) ELSE s

RECURSIVE TrimEnd(_)
TrimEnd(s) ==
    IF s # <<>> /\ s[Len(s)] \in WhiteSpace
    THEN TrimEnd(SubSeq(s, 1, Len(s) - 1))
    ELSE s

\* String.prototype.trim
Trim(s) == TrimEnd(TrimStart(s))

\* obj.key ; reading a property of null throws a TypeError
Throws(x) == x.t \in {"null", "undefined"}
Prop(x, k) == IF x.t = "object" THEN x.v[k] ELSE Undef

-----------------------------------------------------------------------------
(* JSON.stringify *)

\* A stringify that writes every character as it is.
EscapeCharNone(c) == <<c>>

\* A stringify that escapes quotes and backslashes and no line feed.
EscapeCharRawLineFeed(c) ==
    CASE c = QUOTE -> <<BSL, QUOTE>>
      [] c = BSL -> <<BSL, BSL>>
      [] OTHER -> <<c>>

EscapeChar(c) ==
    CASE c = LF -> <<BSL, "n">>
      [] c = QUOTE -> <<BSL, QUOTE>>
      [] c = BSL -> <<BSL, BSL>>
      [] OTHER -> <<c>>

RECURSIVE Escape(_)
Escape(s) ==
    IF s = <<>> THEN <<>> ELSE EscapeChar(Head(s)) \o Escape(Tail(s))

Quoted(s) == <<QUOTE>> \o Escape(s) \o <<QUOTE>>

StringifyScalar(x) ==
    CASE x.t = "string" -> Quoted(x.v)
      [] x.t = "boolean" -> IF x.v THEN <<"true">> ELSE <<"false">>
      [] x.t = "number" -> <<x.v>>
      [] x.t = "array" -> <<LBRACKET, RBRACKET>>
      [] OTHER -> <<"null">>

\* The members of object o from key position i on; a property whose value
\* is undefined is left out.
RECURSIVE StringifyMembers(_, _, _)
StringifyMembers(o, i, first) ==
    IF i > Len(KeyOrder) THEN <<>>
    ELSE LET k == KeyOrder[i] IN
         IF o[k].t = "undefined" THEN StringifyMembers(o, i + 1, first)
         ELSE (IF first THEN <<>> ELSE <<COMMA>>)
              \o Quoted(<<k>>) \o <<COLON>> \o StringifyScalar(o[k])
              \o StringifyMembers(o, i + 1, FALSE)

JSONstringify(x) ==
    IF x.t = "object"
    THEN <<LBRACE>> \o StringifyMembers(x.v, 1, TRUE) \o <<RBRACE>>
    ELSE StringifyScalar(x)

-----------------------------------------------------------------------------
(* JSON.parse *)

ParseFail == [ok |-> FALSE, v |-> Undef, next |-> 0]

\* The string literal whose opening quote precedes position i.
RECURSIVE ScanString(_, _, _)
ScanString(s, i, acc) ==
    IF i > Len(s) THEN ParseFail
    ELSE IF s[i] = QUOTE THEN [ok |-> TRUE, v |-> acc, next |-> i + 1]
    ELSE IF s[i] = LF THEN ParseFail
    ELSE IF s[i] = BSL
         THEN IF i + 1 > Len(s) THEN ParseFail
              ELSE IF s[i + 1] = "n" THEN ScanString(s, i + 2, Append(acc, LF))
              ELSE IF s[i + 1] \in {QUOTE, BSL}
                   THEN ScanString(s, i + 2, Append(acc, s[i + 1]))
              ELSE ParseFail
    ELSE ScanString(s, i + 1, Append(acc, s[i]))

\* A value that is not an object, starting at position i.
ParseScalar(s, i) ==
    IF i > Len(s) THEN ParseFail
    ELSE IF s[i] = QUOTE
         THEN LET r == ScanString(s, i + 1, <<>>) IN
              IF r.ok THEN [ok |-> TRUE, v |-> Str(r.v), next |-> r.next]
              ELSE ParseFail
    ELSE IF s[i] = "true" THEN [ok |-> TRUE, v |-> Bool(TRUE), next |-> i + 1]
    ELSE IF s[i] = "false" THEN [ok |-> TRUE, v |-> Bool(FALSE), next |-> i + 1]
    ELSE IF s[i] = "null" THEN [ok |-> TRUE, v |-> Null, next |-> i + 1]
    ELSE IF s[i] \in NumeralTokens
         THEN [ok |-> TRUE, v |-> Num(s[i]), next |-> i + 1]
    ELSE IF s[i] = LBRACKET /\ i + 1 <= Len(s) /\ s[i + 1] = RBRACKET
         THEN [ok |-> TRUE, v |-> Arr, next |-> i + 2]
    ELSE ParseFail

\* The members of an object, position i being that of a key's opening
\* quote; o holds the members read so far (a repeated key overwrites).
RECURSIVE ParseMembers(_, _, _)
ParseMembers(s, i, o) ==
    IF i > Len(s) \/ s[i] # QUOTE THEN ParseFail
    ELSE LET k == ScanString(s, i + 1, <<>>) IN
         IF ~k.ok \/ k.next > Len(s) \/ s[k.next] # COLON THEN ParseFail
         ELSE LET x == ParseScalar(s, k.next + 1) IN
              IF ~x.ok \/ x.next > Len(s) THEN ParseFail
              ELSE LET o2 == IF Len(k.v) = 1 /\ k.v[1] \in AllKeys
                             THEN [o EXCEPT ![k.v[1]] = x.v]
                             ELSE o
                   IN IF s[x.next] = RBRACE
                      THEN [ok |-> TRUE, v |-> Obj(o2), next |-> x.next + 1]
                      ELSE IF s[x.next] = COMMA
                           THEN ParseMembers(s, x.next + 1, o2)
                           ELSE ParseFail

ParseValue(s, i) ==
    IF i <= Len(s) /\ s[i] = LBRACE
    THEN IF i + 1 <= Len(s) /\ s[i + 1] = RBRACE
         THEN [ok |-> TRUE, v |-> Obj(EmptyObject), next |-> i + 2]
         ELSE ParseMembers(s, i + 1, EmptyObject)
    ELSE ParseScalar(s, i)

\* JSON.parse(line): ok = FALSE stands for the SyntaxError it throws.
JSONparse(line) ==
    LET r == ParseValue(line, 1) IN
    IF r.ok /\ r.next = Len(line) + 1 THEN [ok |-> TRUE, v |-> r.v]
    ELSE [ok |-> FALSE, v |-> Undef]

-----------------------------------------------------------------------------
(* The event file *)

\* The file getEventFile() names, as the fs calls see it.
\* The file system calls of the server throw when the file system refuses
\* them: a read when the file may not be read, a write (creating the file
\* included) when it may not be written.
Modes == {"rw", "r", "w"}
Readable(m) == m \in {"rw", "r"}
Writable(m) == m \in {"rw", "w"}

\* The event file, and whether a call on it has thrown.
Disk == [exists |-> exists, data |-> file, mode |-> mode, err |-> FALSE]

\* An ensureEventFile that writes the empty file whether or not one exists.
ensureEventFileTruncates(d) ==
    IF Writable(d.mode) THEN [d EXCEPT !.exists = TRUE, !.data = <<>>]
    ELSE [d EXCEPT !.err = TRUE]

\* An ensureEventFile that ends the file it finds with a line feed.
ensureEventFileTouches(d) ==
    IF d.exists THEN [d EXCEPT !.data = @ \o <<LF>>]
    ELSE IF Writable(d.mode) THEN [d EXCEPT !.exists = TRUE, !.data = <<>>]
    ELSE [d EXCEPT !.err = TRUE]

ensureEventFile(d) ==
    IF d.exists THEN d
    ELSE IF Writable(d.mode) THEN [d EXCEPT !.exists = TRUE, !.data = <<>>]
    ELSE [d EXCEPT !.err = TRUE]

\* An append that writes the file anew.
appendEventOverwrites(d, evtObj) ==
    [d EXCEPT !.exists = TRUE, !.data = JSONstringify(evtObj) \o <<LF>>]

\* An append that leaves out the line feed.
appendEventNoNewline(d, evtObj) ==
    LET e == ensureEventFile(d)
        line == JSONstringify(evtObj)
    IN IF e.err \/ ~Writable(e.mode) THEN [e EXCEPT !.err = TRUE]
       ELSE [e EXCEPT !.data = @ \o line]

\* An append that fails after it has written the line.
appendEventFailsLate(d, evtObj) ==
    LET e == ensureEventFile(d)
        line == JSONstringify(evtObj) \o <<LF>>
    IN IF e.err THEN e
       ELSE IF ~Writable(e.mode) THEN [e EXCEPT !.data = @ \o line, !.err = TRUE]
       ELSE [e EXCEPT !.data = @ \o line]

appendEvent(d, evtObj) ==
    LET e == ensureEventFile(d)
        line == JSONstringify(evtObj) \o <<LF>>
    IN IF e.err \/ ~Writable(e.mode) THEN [e EXCEPT !.err = TRUE]
       ELSE [e EXCEPT !.data = @ \o line]

\* The positions of the line feeds of s from position i on.
Breaks(s, i) == {j \in i..Len(s) : s[j] = LF}

\* data.split('\n'), from position i on: the pieces between the line feeds.
RECURSIVE SplitLines(_, _)
SplitLines(s, i) ==
    LET b == Breaks(s, i) IN
    IF b = {} THEN <<SubSeq(s, i, Len(s))>>
    ELSE LET j == CHOOSE x \in b : \A y \in b : x <= y
         IN <<SubSeq(s, i, j - 1)>> \o SplitLines(s, j + 1)

\* .filter(Boolean): the empty string is the only falsy string
FilterBoolean(lines) == SelectSeq(lines, LAMBDA l : l # <<>>)

Lines(data) == FilterBoolean(SplitLines(data, 1))

-----------------------------------------------------------------------------
(* new Map(): entries in insertion order *)

\* SameValueZero: primitives by value, objects by identity (every parsed
\* object is a new one).
SameKey(a, b) == a.t \notin {"object", "array"} /\ a = b

MapHas(m, k) == \E i \in DOMAIN m : SameKey(m[i].key, k)

\* A map whose set() keeps the entry a key already has.
MapSetKeepsFirst(m, k, x) ==
    IF MapHas(m, k) THEN m ELSE Append(m, [key |-> k, val |-> x])

\* A map whose set() moves the entry of a key it already has to the end.
MapSetMovesToEnd(m, k, x) ==
    Append(SelectSeq(m, LAMBDA e : ~SameKey(e.key, k)), [key |-> k, val |-> x])

MapSet(m, k, x) ==
    IF MapHas(m, k)
    THEN [i \in DOMAIN m |-> IF SameKey(m[i].key, k) THEN [key |-> k, val |-> x] ELSE m[i]]
    ELSE Append(m, [key |-> k, val |-> x])

\* A delete that drops the newest entry when the key is not in the map.
MapDeleteOrLast(m, k) ==
    IF MapHas(m, k) \/ m = <<>>
    THEN SelectSeq(m, LAMBDA e : ~SameKey(e.key, k))
    ELSE SubSeq(m, 1, Len(m) - 1)

MapDelete(m, k) == SelectSeq(m, LAMBDA e : ~SameKey(e.key, k))

MapValues(m) == [i \in DOMAIN m |-> m[i].val]

-----------------------------------------------------------------------------
(* Clock and ids *)

\* new Date().toISOString() at time t
toISOString(t) == <<"T", ToString(t)>>

\* `t_${Date.now().toString(36)}_${rand}`
makeId(t, rand) == <<"t_", ToString(t), "_", ToString(rand)>>

\* Math.floor(Math.random() * 1e9): ids are only ever compared, so the
\* draws that matter at time t are the values already used in an id at t
\* and one value not used yet.  Two values are kept apart per millisecond.
Rands == {0, 1}

RandomDraws(used, t) ==
    LET taken == {r \in Rands : makeId(t, r) \in used}
        free == Rands \ taken
    IN taken \cup (IF free = {} THEN {}
                   ELSE {CHOOSE r \in free : \A q \in free : r <= q})

-----------------------------------------------------------------------------
(* readProjection *)

CREATE == Str(<<"create">>)
DELETE == Str(<<"delete">>)

\* The task a create event sets, the read happening at time t.
TaskOf(evt, t) ==
    [id |-> Prop(evt, "id"),
     name |-> Prop(evt, "name"),
     date |-> OrElse(Prop(evt, "date"), EmptyStr),
     time |-> OrElse(Prop(evt, "time"), EmptyStr),
     description |-> OrElse(Prop(evt, "description"), EmptyStr),
     priority |-> Bool(Truthy(Prop(evt, "priority"))),
     createdAt |-> OrElse(Prop(evt, "createdAt"), Str(toISOString(t)))]

\* A loop body that tests for another tag than the one DELETE writes.
ApplyLineWrongTag(tasks, line, t) ==
    LET p == JSONparse(line) IN
    IF ~p.ok \/ Throws(p.v) THEN tasks
    ELSE IF Prop(p.v, "type") = CREATE
         THEN MapSet(tasks, Prop(p.v, "id"), TaskOf(p.v, t))
    ELSE IF Prop(p.v, "type") = Str(<<"deleted">>)
         THEN MapDelete(tasks, Prop(p.v, "id"))
    ELSE tasks

\* A loop body without the inner try: the error reaches the outer catch,
\* which answers with no tasks.
ApplyLineNoCatch(tasks, line, t) ==
    LET p == JSONparse(line) IN
    IF ~p.ok \/ Throws(p.v) THEN <<>>
    ELSE IF Prop(p.v, "type") = CREATE
         THEN MapSet(tasks, Prop(p.v, "id"), TaskOf(p.v, t))
    ELSE IF Prop(p.v, "type") = DELETE
         THEN MapDelete(tasks, Prop(p.v, "id"))
    ELSE tasks

\* A loop body that takes every event that is no delete for a create.
ApplyLineAnyTypeCreates(tasks, line, t) ==
    LET p == JSONparse(line) IN
    IF ~p.ok \/ Throws(p.v) THEN tasks
    ELSE IF Prop(p.v, "type") = DELETE
         THEN MapDelete(tasks, Prop(p.v, "id"))
    ELSE MapSet(tasks, Prop(p.v, "id"), TaskOf(p.v, t))

\* The body of the loop over the lines; both a SyntaxError of JSON.parse
\* and a TypeError of evt.type are caught and the line is skipped.
ApplyLine(tasks, line, t) ==
    LET p == JSONparse(line) IN
    IF ~p.ok \/ Throws(p.v) THEN tasks
    ELSE IF Prop(p.v, "type") = CREATE
         THEN MapSet(tasks, Prop(p.v, "id"), TaskOf(p.v, t))
    ELSE IF Prop(p.v, "type") = DELETE
         THEN MapDelete(tasks, Prop(p.v, "id"))
    ELSE tasks

\* A replay in which a delete event outlasts the lines that follow it.
RECURSIVE ReplayTombstone(_, _, _, _)
ReplayTombstone(lines, i, tasks, t) ==
    IF i > Len(lines) THEN tasks
    ELSE LET p == JSONparse(lines[i]) IN
         IF p.ok /\ ~Throws(p.v) /\ Prop(p.v, "type") = DELETE
         THEN MapDelete(ReplayTombstone(lines, i + 1, tasks, t),
                        Prop(p.v, "id"))
         ELSE ReplayTombstone(lines, i + 1, ApplyLine(tasks, lines[i], t), t)

RECURSIVE Replay(_, _, _, _)
Replay(lines, i, tasks, t) ==
    IF i > Len(lines) THEN tasks
    ELSE Replay(lines, i + 1, ApplyLine(tasks, lines[i], t), t)

\* The tasks readProjection returns for file content data, read at time t.
Projection(data, t) == MapValues(Replay(Lines(data), 1, <<>>, t))

\* ensureEventFile is called outside the try block, so what it throws
\* leaves readProjection (disk.err); what readFileSync throws is caught and
\* answered with the empty list.
readProjection(d, t) ==
    LET e == ensureEventFile(d) IN
    IF e.err \/ ~Readable(e.mode) THEN [disk |-> e, tasks |-> <<>>]
    ELSE [disk |-> e, tasks |-> Projection(e.data, t)]

-----------------------------------------------------------------------------
(* Requests and responses *)

Request(kind, body, id) == [kind |-> kind, body |-> body, id |-> id]

\* The members of a response body that is no metrics object.
NoMetrics == <<>>

\* res.status(status).json({ok, id, tasks, error}); an absent member is
\* undefined (id), empty (tasks) or "" (error).  type tells the bodies
\* apart: "json" is the object of the /api routes, with its member ok,
\* "metrics" the object of /metrics, which has none, "html" no JSON at all.
Response(status, ok, id, tasks, error) ==
    [status |-> status, type |-> "json", ok |-> ok, id |-> id,
     tasks |-> tasks, error |-> error, metrics |-> NoMetrics]

\* The page before its first render: no tasks loaded, both lists empty.
\* now is the clock of the browser; scheduled, active and priority are the
\* arrays render fills, holding positions in tasks.
NoPage ==
    [tasks |-> <<>>, now |-> 0, scheduled |-> <<>>, active |-> <<>>,
     priority |-> <<>>, scheduledList |-> <<>>, dashboardList |-> <<>>,
     notified |-> {}, notifications |-> <<>>, failed |-> FALSE,
     lastPoll |-> <<>>]

\* What Express answers by itself when a middleware fails: the status of
\* the error and an HTML page, no JSON object.
HtmlResponse(status) ==
    [status |-> status, type |-> "html", ok |-> FALSE, id |-> Undef,
     tasks |-> <<>>, error |-> "", metrics |-> NoMetrics]

\* res.status(status).json(metrics), or .json({error}) with no metrics.
MetricsResponse(status, metrics, error) ==
    [status |-> status, type |-> "metrics", ok |-> FALSE, id |-> Undef,
     tasks |-> <<>>, error |-> error, metrics |-> metrics]

NoRequest == Request("NONE", EmptyObject, <<>>)
NoResponse == Response(0, FALSE, Undef, <<>>, "")

Body(name, date, time, description, priority) ==
    [EmptyObject EXCEPT !.name = name, !.date = date, !.time = time,
                        !.description = description, !.priority = priority]

\* The request bodies the model sends to POST /api/tasks.
\* name omitted; name ""; name of white space only with a truthy priority
\* that is no boolean; a name to trim, no priority; priority true.
BodyNoName == Body(Undef, Str(<<"d1">>), Str(<<"t1">>), Undef, Undef)
BodyEmptyName == Body(EmptyStr, Undef, Undef, Undef, Bool(FALSE))
BodyBlankName ==
    Body(Str(<<SP, LF>>), Str(<<"d2">>), Undef, Undef, Str(<<"yes">>))
BodyPlain ==
    Body(Str(<<SP, "a", SP>>), Str(<<"d1">>), Str(<<"t1">>),
         Str(<<"x", LF, "y">>), Undef)
BodyPriority ==
    Body(Str(<<"b">>), Str(<<"d1">>), Str(<<"t1">>), Str(<<"x">>), Bool(TRUE))

Bodies ==
    {BodyNoName, BodyEmptyName, BodyBlankName, BodyPlain, BodyPriority}

\* The ids the model sends to DELETE /api/tasks/:id: the ids the service
\* has returned, and an id that is never created (it holds a line feed,
\* sent as %0A in the path).
GhostId == <<"no", LF, "id">>

ListedIds ==
    {res.tasks[i].id.v : i \in {j \in DOMAIN res.tasks : res.tasks[j].id.t = "string"}}

PathIds == acked \cup removed \cup ListedIds \cup {GhostId}

\* The ids in use: those of the lines of the file and those sent or received.
FileIds ==
    LET lines == Lines(file)
        ids == {Prop(JSONparse(lines[i]).v, "id") : i \in DOMAIN lines}
    IN {x.v : x \in {y \in ids : y.t = "string"}}

UsedIds == PathIds \cup FileIds

\* The number of lines of the file, an unterminated last line included; it
\* bounds the model's runs.
LineCount ==
    Cardinality(Breaks(file, 1))
    + (IF file # <<>> /\ file[Len(file)] # LF THEN 1 ELSE 0)

-----------------------------------------------------------------------------
(* app.post('/api/tasks') *)

\* An event that keeps the date and the time of a priority task.
CreateEventKeepsDate(body, id, t) ==
    Obj([EmptyObject EXCEPT
        !.type = CREATE,
        !.id = Str(id),
        !.name = Str(Trim(ToStr(body.name))),
        !.date = IF Truthy(body.date) THEN Str(ToStr(body.date))
                 ELSE EmptyStr,
        !.time = IF Truthy(body.time) THEN Str(ToStr(body.time))
                 ELSE EmptyStr,
        !.description = IF Truthy(body.description)
                        THEN Str(ToStr(body.description))
                        ELSE EmptyStr,
        !.priority = Bool(Truthy(body.priority)),
        !.createdAt = Str(toISOString(t))])

CreateEvent(body, id, t) ==
    LET isPriority == Truthy(body.priority) IN
    Obj([EmptyObject EXCEPT
        !.type = CREATE,
        !.id = Str(id),
        !.name = Str(Trim(ToStr(body.name))),
        !.date = IF isPriority THEN EmptyStr
                 ELSE IF Truthy(body.date) THEN Str(ToStr(body.date))
                 ELSE EmptyStr,
        !.time = IF isPriority THEN EmptyStr
                 ELSE IF Truthy(body.time) THEN Str(ToStr(body.time))
                 ELSE EmptyStr,
        !.description = IF Truthy(body.description)
                        THEN Str(ToStr(body.description))
                        ELSE EmptyStr,
        !.priority = Bool(isPriority),
        !.createdAt = Str(toISOString(t))])

\* if (!name) return res.status(400)...
NameMissing(body) == ~Truthy(body.name)

\* A handler that appends the event before it looks at the name.
PostTaskAppendsFirst(body) ==
    /\ req' = Request("POST", body, <<>>)
    /\ LineCount < MaxLines
    /\ \E rand \in RandomDraws(UsedIds, now) :
         LET id == makeId(now, rand)
             d == appendEvent(Disk, CreateEvent(body, id, now))
         IN /\ exists' = d.exists
            /\ file' = d.data
            /\ IF NameMissing(body)
               THEN /\ res' = Response(400, FALSE, Undef, <<>>,
                                       "Name is required.")
                    /\ UNCHANGED acked
               ELSE /\ res' = Response(201, TRUE, Str(id), <<>>, "")
                    /\ acked' = acked \cup {id}
    /\ UNCHANGED <<mode, now, removed, page>>

\* rand is what Math.random() contributes to the id.
PostTask(body) ==
    /\ req' = Request("POST", body, <<>>)
    /\ IF NameMissing(body)
       THEN /\ res' = Response(400, FALSE, Undef, <<>>, "Name is required.")
            /\ UNCHANGED <<exists, file, acked>>
       ELSE /\ LineCount < MaxLines
            /\ \E rand \in RandomDraws(UsedIds, now) :
                 LET id == makeId(now, rand)
                     d == appendEvent(Disk, CreateEvent(body, id, now))
                 IN /\ exists' = d.exists
                    /\ file' = d.data
                    /\ IF d.err
                       THEN /\ res' = Response(500, FALSE, Undef, <<>>,
                                               "Failed to create task.")
                            /\ UNCHANGED acked
                       ELSE /\ res' = Response(201, TRUE, Str(id), <<>>, "")
                            /\ acked' = acked \cup {id}
    /\ UNCHANGED <<mode, now, removed, page>>

(* app.delete('/api/tasks/:id') *)

DeleteEvent(id, t) ==
    Obj([EmptyObject EXCEPT
        !.type = DELETE, !.id = Str(id), !.deletedAt = Str(toISOString(t))])

DeleteTask(id) ==
    /\ req' = Request("DELETE", EmptyObject, id)
    /\ IF id = <<>>
       THEN /\ res' = Response(400, FALSE, Undef, <<>>, "Task ID required.")
            /\ UNCHANGED <<exists, file, acked, removed>>
       ELSE /\ LineCount < MaxLines
            /\ LET d == appendEvent(Disk, DeleteEvent(id, now))
               IN /\ exists' = d.exists
                  /\ file' = d.data
                  /\ IF d.err
                     THEN /\ res' = Response(500, FALSE, Undef, <<>>,
                                             "Failed to delete task.")
                          /\ UNCHANGED <<acked, removed>>
                     ELSE /\ res' = Response(200, TRUE, Undef, <<>>, "")
                          /\ acked' = acked \ {id}
                          /\ removed' = removed \cup {id}
    /\ UNCHANGED <<mode, now, page>>

(* app.get('/api/tasks') *)

GetTasks ==
    /\ req' = Request("GET", EmptyObject, <<>>)
    /\ LET r == readProjection(Disk, now)
       IN /\ exists' = r.disk.exists
          /\ file' = r.disk.data
          /\ res' = IF r.disk.err
                    THEN Response(500, FALSE, Undef, <<>>,
                                  "Failed to read tasks.")
                    ELSE Response(200, TRUE, Undef, r.tasks, "")
    /\ UNCHANGED <<mode, now, acked, removed, page>>

(* app.get('/metrics') *)

\* Metrics that count every task as one with a date.
MetricsAllDated(tasks, t) ==
    [total_tasks |-> Len(tasks),
     priority_tasks |->
         Cardinality({i \in DOMAIN tasks : Truthy(tasks[i].priority)}),
     regular_tasks |->
         Cardinality({i \in DOMAIN tasks : ~Truthy(tasks[i].priority)}),
     tasks_with_dates |-> Len(tasks),
     tasks_with_descriptions |->
         Cardinality({i \in DOMAIN tasks :
                        /\ Truthy(tasks[i].description)
                        /\ tasks[i].description # EmptyStr}),
     server_timestamp |-> toISOString(t)]

\* The metrics object without server_uptime, which is process.uptime().
Metrics(tasks, t) ==
    [total_tasks |-> Len(tasks),
     priority_tasks |->
         Cardinality({i \in DOMAIN tasks : Truthy(tasks[i].priority)}),
     regular_tasks |->
         Cardinality({i \in DOMAIN tasks : ~Truthy(tasks[i].priority)}),
     tasks_with_dates |->
         Cardinality({i \in DOMAIN tasks :
                        Truthy(tasks[i].date) /\ tasks[i].date # EmptyStr}),
     tasks_with_descriptions |->
         Cardinality({i \in DOMAIN tasks :
                        /\ Truthy(tasks[i].description)
                        /\ tasks[i].description # EmptyStr}),
     server_timestamp |-> toISOString(t)]

\* The error text stands for 'Failed to get metrics: ' + e.message.
GetMetrics ==
    /\ req' = Request("METRICS", EmptyObject, <<>>)
    /\ LET r == readProjection(Disk, now)
       IN /\ exists' = r.disk.exists
          /\ file' = r.disk.data
          /\ res' = IF r.disk.err
                    THEN MetricsResponse(500, NoMetrics,
                                         "Failed to get metrics: ")
                    ELSE MetricsResponse(200, Metrics(r.tasks, now), "")
    /\ UNCHANGED <<mode, now, acked, removed, page>>

\* Time passes between two requests.
Tick ==
    /\ now < MaxTime
    /\ now' = now + 1
    /\ UNCHANGED <<exists, mode, file, req, res, acked, removed, page>>

-----------------------------------------------------------------------------
(* The service started on an empty or absent event file *)

Init ==
    /\ exists \in BOOLEAN
    /\ mode = "rw"
    /\ file = <<>>
    /\ now = 0
    /\ req = NoRequest
    /\ res = NoResponse
    /\ acked = {}
    /\ removed = {}
    /\ page = NoPage

Next ==
    \/ \E body \in Bodies : PostTask(body)
    \/ \E id \in PathIds : DeleteTask(id)
    \/ GetTasks
    \/ Tick

Spec == Init /\ [][Next]_vars

-----------------------------------------------------------------------------
(* The service started on an event file that already has content: lines    *)
(* the service wrote, lines written by other means, lines that are no      *)
(* events, and a last line cut short by a crash during an append.          *)

IdA == makeId(0, 0)
IdB == <<"B">>

\* a create line as the service writes it
LineCreateA == JSONstringify(CreateEvent(BodyPlain, IdA, 0))
\* a create line with only the type, the id and the name
LineCreateB ==
    JSONstringify(Obj([EmptyObject EXCEPT
        !.type = CREATE, !.id = Str(IdB), !.name = Str(<<"n">>)]))
LineDeleteA == JSONstringify(DeleteEvent(IdA, 0))
LineDeleteB == JSONstringify(DeleteEvent(IdB, 0))
\* a line that is no JSON text
LineGarbage == <<"not", SP, "json">>

EventLines == {LineCreateA, LineCreateB, LineDeleteA, LineDeleteB, LineGarbage}

\* JSON texts that are no create or delete event
LineNull == <<"null">>
LineNumber == <<"7">>
LineString == Quoted(<<"create">>)
LineArray == <<LBRACKET, RBRACKET>>
LineUnknownType ==
    JSONstringify(Obj([EmptyObject EXCEPT
        !.type = Str(<<"update">>), !.id = Str(IdB), !.name = Str(<<"u">>)]))
LineNoType ==
    JSONstringify(Obj([EmptyObject EXCEPT !.id = Str(IdB), !.name = Str(<<"u">>)]))

OtherLines ==
    {LineNull, LineNumber, LineString, LineArray, LineUnknownType, LineNoType}

\* The beginning of an event line, the append having stopped inside the
\* value of "id".
Fragment == SubSeq(LineCreateA, 1, 18)

RECURSIVE Terminated(_)
Terminated(lines) ==
    IF lines = <<>> THEN <<>>
    ELSE Head(lines) \o <<LF>> \o Terminated(Tail(lines))

InitialLines ==
    {<<>>}
    \cup {<<a>> : a \in EventLines \cup OtherLines}
    \cup {<<a, b>> : a \in EventLines, b \in EventLines}
    \cup {<<LineCreateB, x>> : x \in OtherLines}
    \cup {<<x, LineCreateB>> : x \in OtherLines}

InitialLogs ==
    {Terminated(l) \o f : l \in InitialLines, f \in {<<>>, Fragment}}

InitAnyLog ==
    /\ file \in InitialLogs
    /\ exists \in (IF file = <<>> THEN BOOLEAN ELSE {TRUE})
    /\ mode = "rw"
    /\ now = 0
    /\ req = NoRequest
    /\ res = NoResponse
    /\ acked = {}
    /\ removed = {}
    /\ page = NoPage

\* The requests sent to it: a POST without a name, a POST of a task, and
\* every DELETE and GET.
NextAnyLog ==
    \/ \E body \in {BodyNoName, BodyPriority} : PostTask(body)
    \/ \E id \in PathIds : DeleteTask(id)
    \/ GetTasks
    \/ GetMetrics
    \/ Tick

SpecAnyLog == InitAnyLog /\ [][NextAnyLog]_vars

\* The same logs read by clients that list, count and delete tasks and post
\* none: the log grows by delete events only.
NextReadLog ==
    \/ \E id \in PathIds : DeleteTask(id)
    \/ GetTasks
    \/ GetMetrics
    \/ Tick

SpecReadLog == InitAnyLog /\ [][NextReadLog]_vars

\* The same logs under clients that post a priority task, delete tasks and
\* ask for the metrics.
NextMetrics ==
    \/ PostTask(BodyPriority)
    \/ \E id \in PathIds : DeleteTask(id)
    \/ GetMetrics
    \/ Tick

SpecMetrics == InitAnyLog /\ [][NextMetrics]_vars

-----------------------------------------------------------------------------
(* The service started on an event file whose lines were written by other  *)
(* means with ids that are no strings: JSON.parse makes a new array of     *)
(* every "id":[] it reads, and a Map tells two arrays apart.               *)

LineCreateArrayId ==
    JSONstringify(Obj([EmptyObject EXCEPT
        !.type = CREATE, !.id = Arr, !.name = Str(<<"n">>)]))
LineDeleteArrayId ==
    JSONstringify(Obj([EmptyObject EXCEPT !.type = DELETE, !.id = Arr]))
\* a create line without an id: the Map key is undefined
LineCreateNoId ==
    JSONstringify(Obj([EmptyObject EXCEPT !.type = CREATE, !.name = Str(<<"n">>)]))

ForeignLines ==
    {LineCreateA, LineCreateB, LineDeleteB, LineCreateArrayId,
     LineDeleteArrayId, LineCreateNoId}

ForeignLogs ==
    {Terminated(<<a>>) : a \in ForeignLines}
    \cup {Terminated(<<a, b>>) : a \in ForeignLines, b \in ForeignLines}

InitForeignLog ==
    /\ file \in ForeignLogs
    /\ exists = TRUE
    /\ mode = "rw"
    /\ now = 0
    /\ req = NoRequest
    /\ res = NoResponse
    /\ acked = {}
    /\ removed = {}
    /\ page = NoPage

SpecForeignLog == InitForeignLog /\ [][NextReadLog]_vars

-----------------------------------------------------------------------------
(* The service started on a log of create and delete events for two ids,  *)
(* in every order, long enough for an id to be created, deleted and       *)
(* created again after the other id.                                      *)

OrderLines == {LineCreateA, LineCreateB, LineDeleteA, LineDeleteB}

OrderLogs ==
    {Terminated(l) : l \in UNION {[1..n -> OrderLines] : n \in 1..(MaxLines + 1)}}

InitOrderLog ==
    /\ file \in OrderLogs
    /\ exists = TRUE
    /\ mode = "rw"
    /\ now = 0
    /\ req = NoRequest
    /\ res = NoResponse
    /\ acked = {}
    /\ removed = {}
    /\ page = NoPage

NextOrder ==
    \/ PostTask(BodyPriority)
    \/ \E id \in PathIds : DeleteTask(id)
    \/ GetTasks
    \/ Tick

SpecOrder == InitOrderLog /\ [][NextOrder]_vars

-----------------------------------------------------------------------------
(* The server asked to store tasks with every field, with the name alone
   and with line feeds in the fields *)

BodyAllFields ==
    Body(Str(<<SP, "n", LF>>), Str(<<"d3">>), Str(<<"t3">>),
         Str(<<SP, QUOTE, BSL, LF, "z">>), Bool(FALSE))
BodyMinimal == Body(Str(<<"m">>), Undef, Undef, Undef, Undef)
\* A body with a line feed in every field.
BodyNewlines ==
    Body(Str(<<"a", LF, "b">>), Str(<<"d", LF>>), Str(<<LF, "t">>),
         Str(<<LF>>), Undef)

NextFields ==
    \/ \E body \in {BodyAllFields, BodyMinimal, BodyNewlines} : PostTask(body)
    \/ \E id \in PathIds : DeleteTask(id)
    \/ GetTasks
    \/ Tick

SpecFields == Init /\ [][NextFields]_vars

-----------------------------------------------------------------------------
(* The server on a file system that refuses reads or writes, and the
   requests that no route handler answers *)

\* The permissions of the event file change.
Chmod(m) ==
    /\ m # mode
    /\ mode' = m
    /\ UNCHANGED <<exists, file, now, req, res, acked, removed, page>>

\* A POST whose body is no JSON text: express.json() passes the error on,
\* and as the server installs no error handler, Express answers.
PostMalformed ==
    /\ req' = Request("POST", EmptyObject, <<>>)
    /\ res' = HtmlResponse(400)
    /\ UNCHANGED <<exists, mode, file, now, acked, removed, page>>

\* app.use('/api/*'): a request no route above has answered.
ApiNotFound ==
    /\ req' = Request("OTHER", EmptyObject, <<>>)
    /\ res' = Response(404, FALSE, Undef, <<>>, "API route not found")
    /\ UNCHANGED <<exists, mode, file, now, acked, removed, page>>

NextFaulty ==
    \/ \E body \in {BodyNoName, BodyEmptyName, BodyPriority} : PostTask(body)
    \/ \E id \in PathIds : DeleteTask(id)
    \/ GetTasks
    \/ Tick
    \/ \E m \in Modes : Chmod(m)
    \/ PostMalformed
    \/ ApiNotFound

SpecFaulty == Init /\ [][NextFaulty]_vars

-----------------------------------------------------------------------------
(* main.js: numbers and dates *)

\* JavaScript numbers: NaN, the two infinities and the integers.
\* Timestamps count minutes, not milliseconds: every due timestamp is a whole
\* number of minutes (seconds and milliseconds are set to 0), and the clock
\* is the minute Date.now() lies in, so that due > now and due <= now are
\* what they are in milliseconds.
NaN == [k |-> "NaN"]
Infinity == [k |-> "Infinity"]
NegInfinity == [k |-> "-Infinity"]
Fin(n) == [k |-> "finite", n |-> n]

\* x || y on numbers: NaN and 0 are falsy
NumOrElse(x, y) == IF x = NaN \/ x = Fin(0) THEN y ELSE x

\* x - y
Minus(x, y) ==
    CASE x = NaN \/ y = NaN -> NaN
      [] x.k = "finite" /\ y.k = "finite" -> Fin(x.n - y.n)
      [] x.k = "finite" -> IF y = Infinity THEN NegInfinity ELSE Infinity
      [] y.k = "finite" -> x
      [] OTHER -> IF x = y THEN NaN ELSE x

\* A comparison that also holds for equal numbers.
GreaterOrEqual(x, y) ==
    CASE x = NaN \/ y = NaN -> FALSE
      [] x.k = "finite" /\ y.k = "finite" -> x.n >= y.n
      [] x = Infinity -> TRUE
      [] x = NegInfinity -> y = NegInfinity
      [] OTHER -> y = NegInfinity

\* x > y ; false when either is NaN
Greater(x, y) ==
    CASE x = NaN \/ y = NaN -> FALSE
      [] x.k = "finite" /\ y.k = "finite" -> x.n > y.n
      [] x = Infinity -> y # Infinity
      [] x = NegInfinity -> FALSE
      [] OTHER -> y = NegInfinity

\* x <= y ; false when either is NaN
LessOrEqual(x, y) ==
    CASE x = NaN \/ y = NaN -> FALSE
      [] x.k = "finite" /\ y.k = "finite" -> x.n <= y.n
      [] x = NegInfinity -> TRUE
      [] x = Infinity -> y = Infinity
      [] OTHER -> y = Infinity

\* What sort makes of the value of a comparator: its sign, NaN counts as 0.
Sign(x) ==
    CASE x = NaN -> 0
      [] x = Infinity -> 1
      [] x = NegInfinity -> -1
      [] OTHER -> IF x.n > 0 THEN 1 ELSE IF x.n < 0 THEN -1 ELSE 0

DigitValue(c) == CHOOSE n \in 0..9 : ToString(n) = c

RECURSIVE Decimal(_, _)
Decimal(s, acc) ==
    IF s = <<>> THEN acc
    ELSE Decimal(Tail(s), acc * 10 + DigitValue(Head(s)))

IsDigits(s) == s # <<>> /\ \A i \in DOMAIN s : s[i] \in NumeralTokens

\* Number(s) for a string s: white space is trimmed, the empty string is 0,
\* a decimal numeral with or without sign its value, other text NaN.
Number(s) ==
    LET u == Trim(s) IN
    IF u = <<>> THEN Fin(0)
    ELSE IF IsDigits(u) THEN Fin(Decimal(u, 0))
    ELSE IF Head(u) = "-" /\ IsDigits(Tail(u)) THEN Fin(0 - Decimal(Tail(u), 0))
    ELSE NaN

\* s.split(sep), from position i on
RECURSIVE Split(_, _, _)
Split(s, sep, i) ==
    LET b == {j \in i..Len(s) : s[j] = sep} IN
    IF b = {} THEN <<SubSeq(s, i, Len(s))>>
    ELSE LET j == CHOOSE x \in b : \A y \in b : x <= y
         IN <<SubSeq(s, i, j - 1)>> \o Split(s, sep, j + 1)

\* const [a, b, c] = s.split(sep).map(Number): a missing element is
\* undefined, which the Date constructor and || read as NaN does.
Part(parts, i) == IF i \in DOMAIN parts THEN Number(parts[i]) ELSE NaN

\* The days from 1970-01-01 to the day d of month m (1..12) of year y.
DaysFromCivil(y, m, d) ==
    LET yy == IF m <= 2 THEN y - 1 ELSE y
        era == yy \div 400
        yoe == yy - era * 400
        mp == IF m > 2 THEN m - 3 ELSE m + 9
        doy == (153 * mp + 2) \div 5 + d - 1
        doe == yoe * 365 + yoe \div 4 - yoe \div 100 + doy
    IN era * 146097 + doe - 719468

\* new Date(y, m, d, hh, mm, 0, 0).getTime() with the month m counted from
\* 0, in a time zone without offset: NaN when an argument is NaN; a year
\* in 0..99 is of the 1900s; months and days beyond their range carry over.
NewDate(y, m, d, hh, mm) ==
    IF NaN \in {y, m, d, hh, mm} THEN NaN
    ELSE LET full == IF y.n \in 0..99 THEN 1900 + y.n ELSE y.n
             ym == full + (m.n \div 12)
             mn == m.n % 12
         IN Fin((DaysFromCivil(ym, mn + 1, 1) + d.n - 1) * 1440
                + hh.n * 60 + mm.n)

\* new Date(s).getTime() for the texts toISOString writes
DateParse(s) ==
    IF s.t = "string" /\ Len(s.v) = 2 /\ s.v[1] = "T" THEN Number(<<s.v[2]>>)
    ELSE NaN

\* A taskDueTs that goes on to parse an empty date or time.
taskDueTsNoGuard(task) ==
    LET ymd == Split(task.date.v, "-", 1)
        hm == Split(task.time.v, ":", 1)
    IN NewDate(Part(ymd, 1), Minus(Part(ymd, 2), Fin(1)), Part(ymd, 3),
               NumOrElse(Part(hm, 1), Fin(0)), NumOrElse(Part(hm, 2), Fin(0)))

taskDueTs(task) ==
    IF ~Truthy(task.date) \/ ~Truthy(task.time) THEN NaN
    ELSE LET ymd == Split(task.date.v, "-", 1)
             hm == Split(task.time.v, ":", 1)
             y == Part(ymd, 1)
             m == Part(ymd, 2)
             d == Part(ymd, 3)
             hh == Part(hm, 1)
             mm == Part(hm, 2)
         IN NewDate(y, Minus(m, Fin(1)), d,
                    NumOrElse(hh, Fin(0)), NumOrElse(mm, Fin(0)))

-----------------------------------------------------------------------------
(* main.js: render *)

\* array.sort(cmp) for a comparator that orders by a key: the stable
\* sort.  Each element is put behind the elements that do not come after it.
\* cmp[<<a, b>>] is the sign of the comparator's value for a and b.
SortBy(seq, cmp) ==
    LET sorted[n \in 0..Len(seq)] ==
            IF n = 0 THEN <<>>
            ELSE LET prev == sorted[n - 1]
                     x == seq[n]
                     k == Cardinality({j \in DOMAIN prev : cmp[<<prev[j], x>>] <= 0})
                 IN SubSeq(prev, 1, k) \o <<x>> \o SubSeq(prev, k + 1, Len(prev))
    IN sorted[Len(seq)]

NoGroups == [scheduled |-> <<>>, active |-> <<>>, priority |-> <<>>]

\* A loop that lets a priority task fall through to the tests of its date.
RECURSIVE GroupTasksNoContinue(_, _, _, _)
GroupTasksNoContinue(tasks, i, t, g) ==
    IF i > Len(tasks) THEN g
    ELSE LET due == taskDueTs(tasks[i])
             p == IF Truthy(tasks[i].priority)
                  THEN [g EXCEPT !.priority = Append(@, i)]
                  ELSE g
         IN IF due = NaN
            THEN GroupTasksNoContinue(tasks, i + 1, t,
                                      [p EXCEPT !.active = Append(@, i)])
            ELSE IF Greater(due, Fin(t))
            THEN GroupTasksNoContinue(tasks, i + 1, t,
                                      [p EXCEPT !.scheduled = Append(@, i)])
            ELSE GroupTasksNoContinue(tasks, i + 1, t,
                                      [p EXCEPT !.active = Append(@, i)])

\* for (const t of tasks) {...}, from the task at position i on: g holds
\* the three arrays, which take the positions of the tasks pushed.
RECURSIVE GroupTasks(_, _, _, _)
GroupTasks(tasks, i, t, g) ==
    IF i > Len(tasks) THEN g
    ELSE LET due == taskDueTs(tasks[i]) IN
         IF Truthy(tasks[i].priority)
         THEN GroupTasks(tasks, i + 1, t, [g EXCEPT !.priority = Append(@, i)])
         ELSE IF due = NaN
         THEN GroupTasks(tasks, i + 1, t, [g EXCEPT !.active = Append(@, i)])
         ELSE IF Greater(due, Fin(t))
         THEN GroupTasks(tasks, i + 1, t, [g EXCEPT !.scheduled = Append(@, i)])
         ELSE GroupTasks(tasks, i + 1, t, [g EXCEPT !.active = Append(@, i)])

\* The list item of a task; isActive gives it the Delete button.
taskItem(task, isActive) == [task |-> task, deleteBtn |-> isActive]

\* A dashboard that shows the active tasks above the priority tasks.
dashboardActiveFirst(tasks, priority, active) ==
    [n \in DOMAIN active |-> taskItem(tasks[active[n]], TRUE)]
    \o [n \in DOMAIN priority |-> taskItem(tasks[priority[n]], TRUE)]

\* The two loops that fill dashboardList: priority first, then the rest.
dashboard(tasks, priority, active) ==
    [n \in DOMAIN priority |-> taskItem(tasks[priority[n]], TRUE)]
    \o [n \in DOMAIN active |-> taskItem(tasks[active[n]], TRUE)]

\* render(tasks) at clock value t: the three sorted arrays and the two
\* lists of the document.
render(tasks, t) ==
    LET g == GroupTasks(tasks, 1, t, NoGroups)
        due(i) == taskDueTs(tasks[i])
        created(i) == DateParse(tasks[i].createdAt)
        pairs == (DOMAIN tasks) \X (DOMAIN tasks)
        scheduled ==
            SortBy(g.scheduled,
                   [ab \in pairs |->
                       Sign(Minus(NumOrElse(due(ab[1]), Infinity),
                                  NumOrElse(due(ab[2]), Infinity)))])
        active ==
            SortBy(g.active,
                   [ab \in pairs |->
                       Sign(Minus(NumOrElse(due(ab[2]), Fin(0)),
                                  NumOrElse(due(ab[1]), Fin(0))))])
        priority ==
            SortBy(g.priority,
                   [ab \in pairs |->
                       Sign(Minus(created(ab[2]), created(ab[1])))])
    IN [scheduled |-> scheduled, active |-> active, priority |-> priority,
        scheduledList |->
            [n \in DOMAIN scheduled |-> taskItem(tasks[scheduled[n]], FALSE)],
        dashboardList |-> dashboard(tasks, priority, active)]

-----------------------------------------------------------------------------
(* The page rendering task lists of every kind at every time *)

Text(s) == Str(<<s>>)
Date1969 == Str(<<"1", "9", "6", "9", "-", "1", "2", "-", "3", "1">>)
Date1970 == Str(<<"1", "9", "7", "0", "-", "0", "1", "-", "0", "1">>)
Time2359 == Str(<<"2", "3", ":", "5", "9">>)
Time0000 == Str(<<"0", "0", ":", "0", "0">>)
Time0001 == Str(<<"0", "0", ":", "0", "1">>)

Task(id, date, time, priority, createdAt) ==
    [id |-> Text(id), name |-> Text(id), date |-> date, time |-> time,
     description |-> EmptyStr, priority |-> Bool(priority),
     createdAt |-> Str(toISOString(createdAt))]

\* Tasks with priority (one of them with a date and a time), without date
\* or time, with a date that is no date, and due one minute before, at, and
\* one minute after 1970-01-01 00:00.
TaskPool ==
    {Task("p1", EmptyStr, EmptyStr, TRUE, 0),
     Task("p2", Date1970, Time0001, TRUE, 1),
     Task("n1", EmptyStr, EmptyStr, FALSE, 0),
     Task("n2", Date1970, EmptyStr, FALSE, 0),
     Task("n3", EmptyStr, Time0001, FALSE, 0),
     Task("g1", Text("soon"), Time0001, FALSE, 0),
     Task("d1", Date1969, Time2359, FALSE, 0),
     Task("d2", Date1970, Time0000, FALSE, 0),
     Task("d3", Date1970, Time0001, FALSE, 0)}

\* The lists of at most n distinct tasks of the pool.
RECURSIVE TaskLists(_)
TaskLists(n) ==
    IF n = 0 THEN {<<>>}
    ELSE LET shorter == TaskLists(n - 1) IN
         shorter \cup {Append(l, x) : l \in shorter, x \in TaskPool}

Distinct(l) == \A i, j \in DOMAIN l : i # j => l[i] # l[j]

InitPage ==
    /\ exists = TRUE
    /\ mode = "rw"
    /\ file = <<>>
    /\ now = 0
    /\ req = NoRequest
    /\ res = NoResponse
    /\ acked = {}
    /\ removed = {}
    /\ \E l \in {x \in TaskLists(MaxTasks) : Distinct(x)} :
          page = [NoPage EXCEPT !.tasks = l, !.now = 0 - MaxClock]

\* The page renders the tasks it holds.
RenderPage ==
    /\ LET r == render(page.tasks, page.now)
       IN page' = [page EXCEPT !.scheduled = r.scheduled,
                               !.active = r.active,
                               !.priority = r.priority,
                               !.scheduledList = r.scheduledList,
                               !.dashboardList = r.dashboardList]
    /\ UNCHANGED <<exists, mode, file, now, req, res, acked, removed>>

\* A minute passes in the browser.
PageTick ==
    /\ page.now < MaxClock
    /\ page' = [page EXCEPT !.now = @ + 1]
    /\ UNCHANGED <<exists, mode, file, now, req, res, acked, removed>>

NextPage == RenderPage \/ PageTick

SpecPage == InitPage /\ [][NextPage]_vars

-----------------------------------------------------------------------------
(* main.js: loadAndRender, run at load, after a submit and every 20 s *)

\* notified.has(id): a Set compares as a Map does.
SetHas(set, id) == \E k \in set : SameKey(k, id)

\* notify(`Task due: ${t.name}`, t.description || ''), shown as a
\* Notification or as an alert; id tells for which task it was raised.
Notification(task) ==
    [id |-> task.id, title |-> task.name,
     body |-> OrElse(task.description, EmptyStr)]

\* for (const t of tasks) {...} of loadAndRender, from the task at position
\* i on, at clock value t: n holds the set notified and the notifications
\* raised so far.
RECURSIVE NotifyDue(_, _, _, _)
NotifyDue(tasks, i, t, n) ==
    IF i > Len(tasks) THEN n
    ELSE LET due == taskDueTs(tasks[i]) IN
         IF Truthy(tasks[i].priority) THEN NotifyDue(tasks, i + 1, t, n)
         ELSE IF due = NaN THEN NotifyDue(tasks, i + 1, t, n)
         ELSE IF LessOrEqual(due, Fin(t)) /\ ~SetHas(n.notified, tasks[i].id)
         THEN NotifyDue(tasks, i + 1, t,
                        [notified |-> n.notified \cup {tasks[i].id},
                         notifications |->
                             Append(n.notifications, Notification(tasks[i]))])
         ELSE NotifyDue(tasks, i + 1, t, n)

\* What GET /api/tasks may answer to the page over time: tasks with
\* priority and a date, without a date, due one minute after 1970-01-01
\* 00:00, and a task that has the id of that one and is due a minute
\* earlier, which the service returns after makeId has drawn the id twice.
PollPool ==
    {Task("p2", Date1970, Time0001, TRUE, 1),
     Task("n1", EmptyStr, EmptyStr, FALSE, 0),
     Task("d3", Date1970, Time0001, FALSE, 0),
     Task("d3", Date1970, Time0000, FALSE, 1)}

\* The lists of at most n tasks of the pool with different ids.
RECURSIVE PollLists(_)
PollLists(n) ==
    IF n = 0 THEN {<<>>}
    ELSE LET shorter == PollLists(n - 1) IN
         shorter \cup UNION {{Append(l, x) :
                                 x \in {y \in PollPool : \A i \in DOMAIN l : l[i].id # y.id}} :
                              l \in shorter}

InitPoll ==
    /\ exists = TRUE
    /\ mode = "rw"
    /\ file = <<>>
    /\ now = 0
    /\ req = NoRequest
    /\ res = NoResponse
    /\ acked = {}
    /\ removed = {}
    /\ page = [NoPage EXCEPT !.now = 0 - MaxClock]

\* A run of loadAndRender that the service answers with {ok: true, tasks}.
loadAndRender(tasks) ==
    /\ LET r == render(tasks, page.now)
           n == NotifyDue(tasks, 1, page.now,
                          [notified |-> page.notified,
                           notifications |-> page.notifications])
       IN page' = [page EXCEPT !.tasks = tasks,
                               !.scheduled = r.scheduled,
                               !.active = r.active,
                               !.priority = r.priority,
                               !.scheduledList = r.scheduledList,
                               !.dashboardList = r.dashboardList,
                               !.notified = n.notified,
                               !.notifications = n.notifications,
                               !.failed = FALSE,
                               !.lastPoll = <<page.now>>]
    /\ UNCHANGED <<exists, mode, file, now, req, res, acked, removed>>

\* A run that the service answers with ok false: the page alerts and
\* returns before it renders.
LoadFails ==
    /\ page' = [page EXCEPT !.failed = TRUE]
    /\ UNCHANGED <<exists, mode, file, now, req, res, acked, removed>>

NextPoll ==
    \/ \E tasks \in PollLists(MaxTasks) : loadAndRender(tasks)
    \/ LoadFails
    \/ PageTick

SpecPoll == InitPoll /\ [][NextPoll]_vars

-----------------------------------------------------------------------------
(* What the properties below speak about *)

\* The set of the tasks of a task list, and the ids in it.
TaskSet(tasks) == {tasks[i] : i \in DOMAIN tasks}
TaskIds(tasks) == {tasks[i].id : i \in DOMAIN tasks}
HasId(tasks, id) == Str(id) \in TaskIds(tasks)

\* The lines of the log as JSON.parse reads them.
ParsedLines(data) ==
    LET lines == Lines(data) IN [i \in DOMAIN lines |-> JSONparse(lines[i])]

IsEvent(p, type) == p.ok /\ p.v.t = "object" /\ p.v.v.type = type
IsCreate(p) == IsEvent(p, CREATE)
IsDelete(p) == IsEvent(p, DELETE)
EventId(p) == p.v.v.id

\* A step taken by a request handler (the clock stands still during it).
HandlerStep == now' = now /\ mode' = mode

-----------------------------------------------------------------------------
(* C1: readProjection returns exactly the tasks obtained by folding the    *)
(* events of the log in order: a task is present exactly when the last     *)
(* event for its id is a create, and it has the fields of that create.     *)

FoldedTasks(data, t) ==
    LET ps == ParsedLines(data)
        last == {i \in DOMAIN ps :
                    /\ IsCreate(ps[i])
                    /\ \A j \in DOMAIN ps :
                         (j > i /\ (IsCreate(ps[j]) \/ IsDelete(ps[j])))
                             => EventId(ps[j]) # EventId(ps[i])}
    IN {TaskOf(ps[i].v, t) : i \in last}

-----------------------------------------------------------------------------
(* C2: two calls of readProjection on the same log content return the same *)
(* tasks, whenever they are made.                                          *)

C2_RepeatedReadsAgree ==
    [][(req.kind = "GET" /\ req'.kind = "GET" /\ file' = file)
          => res'.tasks = res.tasks]_vars

-----------------------------------------------------------------------------
(* C3: from an empty log, an id returned by a 201 is in every later GET    *)
(* until a DELETE names it, and an id named by a DELETE that returned 200  *)
(* is in no later GET.                                                     *)

C3_AckedListedRemovedNot ==
    req.kind = "GET" =>
        /\ \A id \in acked : HasId(res.tasks, id)
        /\ \A id \in removed : ~HasId(res.tasks, id)

-----------------------------------------------------------------------------
(* C4: whatever the log holds, an unterminated last line included, a POST  *)
(* answered 201 with id X is visible to the read that follows it, and so   *)
(* are the tasks the log held before.                                      *)

C4_CreateVisibleAfterFragment ==
    [][(HandlerStep /\ req'.kind = "POST" /\ res'.status = 201)
          => /\ HasId(Projection(file', now'), res'.id.v)
             /\ \A task \in TaskSet(Projection(file, now)) :
                   task.id # res'.id
                       => task \in TaskSet(Projection(file', now'))]_vars

-----------------------------------------------------------------------------
(* C5: the log is append-only.  Every step that changes the file keeps the *)
(* old content as a prefix, and every POST answered 201 and every DELETE   *)
(* answered 200 adds exactly one line, an event, at the end.               *)

IsPrefix(s, r) == Len(s) <= Len(r) /\ SubSeq(r, 1, Len(s)) = s

Written ==
    \/ req'.kind = "POST" /\ res'.status = 201
    \/ req'.kind = "DELETE" /\ res'.status = 200

C5_AppendOnly ==
    [][/\ IsPrefix(file, file')
       /\ (HandlerStep /\ Written) =>
            LET line == SubSeq(file', Len(file) + 1, Len(file') - 1) IN
            /\ file' = file \o line \o <<LF>>
            /\ \A i \in DOMAIN line : line[i] # LF
            /\ IsCreate(JSONparse(line)) \/ IsDelete(JSONparse(line))
            /\ Lines(file') = Append(Lines(file), line)]_vars

\* A DELETE of an id that was never created has added the third line.
C5_Witness ==
    /\ req.kind = "DELETE" /\ req.id = GhostId /\ res.status = 200
    /\ acked # {}
    /\ Len(Lines(file)) = 3

-----------------------------------------------------------------------------
(* C6: a DELETE always answers 200 {ok: true}; it leaves every task with   *)
(* another id as it was, the id it names is not in the projection after    *)
(* it, and when that id was not in the projection before (never created,   *)
(* or deleted already) the projection is the same after it as before.      *)

Others(tasks, id) == SelectSeq(tasks, LAMBDA task : task.id # Str(id))

C6_DeleteIdempotent ==
    [][(HandlerStep /\ req'.kind = "DELETE") =>
          LET before == Projection(file, now)
              after == Projection(file', now')
          IN /\ res'.status = 200 /\ res'.ok
             /\ Others(after, req'.id) = Others(before, req'.id)
             /\ ~HasId(after, req'.id)
             /\ ~HasId(before, req'.id) => after = before]_vars

\* The same id has been deleted twice, a task with another id being there.
C6_Witness ==
    LET ps == ParsedLines(file) IN
    /\ req.kind = "DELETE" /\ res.status = 200
    /\ Len(Projection(file, now)) >= 1
    /\ \E i, j \in DOMAIN ps :
         /\ i < j /\ IsDelete(ps[i]) /\ IsDelete(ps[j])
         /\ EventId(ps[i]) = Str(req.id) /\ EventId(ps[j]) = Str(req.id)

-----------------------------------------------------------------------------
(* C7: when the creates of an id are all followed by a delete of that id,  *)
(* however many creates there are, the projection has no task with the id. *)

DeletedLast(ps, j) ==
    /\ IsDelete(ps[j])
    /\ \E i \in DOMAIN ps : IsCreate(ps[i]) /\ EventId(ps[i]) = EventId(ps[j])
    /\ \A i \in DOMAIN ps :
         (IsCreate(ps[i]) /\ EventId(ps[i]) = EventId(ps[j])) => i < j

C7_DeleteRemoves ==
    LET ps == ParsedLines(file) IN
    \A j \in DOMAIN ps :
        DeletedLast(ps, j) =>
            /\ EventId(ps[j]) \notin TaskIds(Projection(file, now))
            /\ req.kind = "GET" => EventId(ps[j]) \notin TaskIds(res.tasks)

\* A read after two creates of one id and a delete of it.
C7_Witness ==
    LET ps == ParsedLines(file) IN
    /\ req.kind = "GET"
    /\ \E i, k, j \in DOMAIN ps :
         /\ i < k /\ k < j /\ DeletedLast(ps, j)
         /\ IsCreate(ps[i]) /\ IsCreate(ps[k])
         /\ EventId(ps[i]) = EventId(ps[j]) /\ EventId(ps[k]) = EventId(ps[j])

-----------------------------------------------------------------------------
(* C8: a log of N create events with distinct ids and one line that is no  *)
(* JSON text, at any position, gives N tasks, and GET answers 200.         *)

BadLines(ps) == {i \in DOMAIN ps : ~ps[i].ok}
CreateLines(ps) == {i \in DOMAIN ps : IsCreate(ps[i])}

OneBadLineAmongCreates(ps) ==
    /\ Cardinality(BadLines(ps)) = 1
    /\ BadLines(ps) \cup CreateLines(ps) = DOMAIN ps
    /\ \A i, j \in CreateLines(ps) : i # j => EventId(ps[i]) # EventId(ps[j])

C8_MalformedLineSkipped ==
    LET ps == ParsedLines(file) IN
    OneBadLineAmongCreates(ps) =>
        /\ Len(Projection(file, now)) = Cardinality(CreateLines(ps))
        /\ req.kind = "GET" =>
             /\ res.status = 200 /\ res.ok
             /\ Len(res.tasks) = Cardinality(CreateLines(ps))

\* A read of two creates that follow a line that is no JSON text.
C8_Witness ==
    LET ps == ParsedLines(file) IN
    /\ OneBadLineAmongCreates(ps)
    /\ req.kind = "GET" /\ Len(res.tasks) = 2
    /\ 1 \in BadLines(ps)

-----------------------------------------------------------------------------
(* C9: POST answers 400 with ok: false when the name is omitted or empty   *)
(* after trimming, and 201 in every other case.                            *)

NameBlank(body) ==
    body.name.t = "undefined" \/ Trim(ToStr(body.name)) = <<>>

C9_NameValidation ==
    req.kind = "POST" =>
        IF NameBlank(req.body) THEN res.status = 400 /\ ~res.ok
        ELSE res.status = 201

-----------------------------------------------------------------------------
(* C10: from an empty log, the name of every create event in the log and   *)
(* of every task read is non-empty and trimmed, and the event a POST adds  *)
(* has the trimmed name of the request.                                    *)

TrimmedName(x) == x.t = "string" /\ x.v # <<>> /\ Trim(x.v) = x.v

C10_NamesTrimmedNonEmpty ==
    LET ps == ParsedLines(file)
        tasks == Projection(file, now)
    IN /\ \A i \in DOMAIN ps : IsCreate(ps[i]) => TrimmedName(ps[i].v.v.name)
       /\ \A i \in DOMAIN tasks : TrimmedName(tasks[i].name)
       /\ (req.kind = "POST" /\ res.status = 201) =>
            ps[Len(ps)].v.v.name = Str(Trim(ToStr(req.body.name)))

\* C11: a POST that is answered with status 400 leaves the log as it was:
\* the file is neither created nor written, and the projection read after
\* the request is the one read before it.
C11_RejectedPostLeavesLog ==
    [][(HandlerStep /\ req'.kind = "POST" /\ res'.status = 400) =>
          /\ exists' = exists
          /\ file' = file
          /\ Projection(file', now') = Projection(file, now)]_vars

\* A POST has been answered with 400 on a log that holds events.
C11_Witness ==
    /\ req.kind = "POST"
    /\ res.status = 400
    /\ file # <<>>

\* The field a request supplies as a string, "" when it leaves it out.
Supplied(x) == IF x = Undef THEN EmptyStr ELSE x

\* The tasks of a list that carry the id.
TasksWithId(tasks, id) == {task \in TaskSet(tasks) : task.id = id}

\* C12: every task the projection holds with priority true has the empty
\* date and the empty time; the task a POST creates has priority true
\* exactly when the supplied priority is truthy, and with a falsy priority
\* it keeps the date and the time the request supplied.
C12_PriorityForcing ==
    /\ \A task \in TaskSet(Projection(file, now)) \cup TaskSet(res.tasks) :
          /\ task.priority \in {Bool(TRUE), Bool(FALSE)}
          /\ task.priority = Bool(TRUE) =>
                task.date = EmptyStr /\ task.time = EmptyStr
    /\ (req.kind = "POST" /\ res.status = 201) =>
          /\ TasksWithId(Projection(file, now), res.id) # {}
          /\ \A task \in TasksWithId(Projection(file, now), res.id) :
                /\ task.priority = Bool(Truthy(req.body.priority))
                /\ ~Truthy(req.body.priority) =>
                      /\ task.date = Supplied(req.body.date)
                      /\ task.time = Supplied(req.body.time)

\* A GET lists a priority task created with a date (by a true priority and
\* by a truthy string) next to a task that kept its date and time.
C12_Witness ==
    /\ req.kind = "GET"
    /\ \E a, b, c \in TaskSet(res.tasks) :
          /\ a.priority = Bool(TRUE) /\ a.name = BodyPriority.name
          /\ b.priority = Bool(TRUE) /\ b.name = EmptyStr
          /\ c.priority = Bool(FALSE) /\ c.date = BodyPlain.date
          /\ c.time = BodyPlain.time

\* C13: the POSTs that were answered with 201 received pairwise distinct
\* ids, and the projection lists one task for each of them that was not
\* deleted since.  (On the log of Spec every create line is the event of
\* one such POST, and acked holds the ids not deleted since.)
C13_IdsPairwiseDistinct ==
    LET ps == ParsedLines(file)
        creates == {i \in DOMAIN ps : IsCreate(ps[i])}
    IN /\ \A i, j \in creates : i # j => EventId(ps[i]) # EventId(ps[j])
       /\ \A id \in acked : HasId(Projection(file, now), id)

\* A line that is the text of exactly one create or delete event.
WholeEventLine(line) ==
    LET p == JSONparse(line) IN
    /\ IsCreate(p) \/ IsDelete(p)
    /\ JSONstringify(p.v) = line

\* A log made of whole event lines, each ended by its line feed.
WholeLines(data) ==
    LET lines == Lines(data) IN
    /\ data = <<>> \/ data[Len(data)] = LF
    /\ \A i \in DOMAIN lines : WholeEventLine(lines[i])

\* C14: in whatever order the handlers of the requests in flight run, the
\* log consists of whole event lines after every step, and every GET
\* returns the projection of the log as it stood between two appends.
C14_NoTornLines ==
    [][/\ WholeLines(file')
       /\ (HandlerStep /\ req'.kind = "GET") =>
            /\ file' = file
            /\ res'.tasks = Projection(file, now)]_vars

\* A GET has read a log of MaxLines events, a create and a delete among
\* them.
C14_Witness ==
    /\ req.kind = "GET"
    /\ Len(Lines(file)) = MaxLines
    /\ \E i, j \in DOMAIN Lines(file) :
          /\ IsCreate(ParsedLines(file)[i])
          /\ IsDelete(ParsedLines(file)[j])
    /\ res.tasks # <<>>

\* C15: a GET of a log that exists and may not be read is answered with
\* status 500 and ok false, with no task list.
C15_UnreadableLogIs500 ==
    [][(HandlerStep /\ req'.kind = "GET" /\ exists /\ ~Readable(mode)) =>
          /\ res'.status = 500
          /\ ~res'.ok
          /\ res'.error # ""]_vars

\* A POST or DELETE that got as far as the append.
Appending == req'.kind \in {"POST", "DELETE"} /\ res'.status # 400

C17_FailuresAreEnvelopes ==
    res.status >= 400 =>
        /\ res.type = "json"
        /\ ~res.ok
        /\ res.error # ""

\* C18: GET /api/tasks and GET /metrics leave the content of the log, and
\* so its sequence of lines, as it was; a file that exists still exists,
\* and a file that is created is empty.
C18_ReadsLeaveLog ==
    [][(HandlerStep /\ req'.kind \in {"GET", "METRICS"}) =>
          /\ file' = file
          /\ Lines(file') = Lines(file)
          /\ exists => exists'
          /\ ~exists => file' = <<>>]_vars

\* /metrics has counted the tasks of a log of several lines.
C18_Witness ==
    /\ req.kind = "METRICS"
    /\ res.status = 200
    /\ Len(Lines(file)) >= 2
    /\ res.metrics.total_tasks >= 1

\* C19: the GET that follows a POST of a body without priority, answered
\* 201 with id X, lists a task with id X whose name is the trimmed name of
\* the request, whose date, time and description are the strings of the
\* request ("" for those left out), and whose priority is false.
C19_CreateRoundTrip ==
    [][(/\ req.kind = "POST" /\ res.status = 201
        /\ ~Truthy(req.body.priority)
        /\ HandlerStep /\ req'.kind = "GET") =>
          \E task \in TasksWithId(res'.tasks, res.id) :
              /\ task.name = Str(Trim(req.body.name.v))
              /\ task.date = Supplied(req.body.date)
              /\ task.time = Supplied(req.body.time)
              /\ task.description = Supplied(req.body.description)
              /\ task.priority = Bool(FALSE)]_vars

\* A GET lists a task created with every field, its description holding a
\* quote, a backslash and a line feed, and a task created with the name
\* alone.
C19_Witness ==
    /\ req.kind = "GET"
    /\ \E a, b \in TaskSet(res.tasks) :
          /\ a.description = BodyAllFields.description
          /\ a.date = BodyAllFields.date
          /\ b.name = BodyMinimal.name
          /\ b.description = EmptyStr

\* The positions an array of render holds.
Positions(group) == {group[n] : n \in DOMAIN group}

\* C20: after every render, each task is in exactly one of the arrays
\* scheduled, active and priority, once, and a task with priority true is in
\* priority whatever its date and time.
C20_GroupsPartitionTasks ==
    [][page'.now = page.now =>
          LET groups == <<page'.scheduled, page'.active, page'.priority>> IN
          /\ \A i \in DOMAIN page.tasks :
                /\ Cardinality({g \in 1..3 : i \in Positions(groups[g])}) = 1
                /\ Truthy(page.tasks[i].priority) =>
                      i \in Positions(page'.priority)
          /\ \A g \in 1..3 :
                /\ Positions(groups[g]) \subseteq DOMAIN page.tasks
                /\ Cardinality(Positions(groups[g])) = Len(groups[g])]_vars

\* A render has filled all three arrays, a priority task with a date and a
\* time that lie ahead among them.
C20_Witness ==
    /\ page.scheduled # <<>>
    /\ page.active # <<>>
    /\ \E n \in DOMAIN page.priority :
          Greater(taskDueTs(page.tasks[page.priority[n]]), Fin(page.now))

\* C21: after every render, a task without priority is in scheduled exactly
\* when its due timestamp is a number greater than the clock; with a due
\* timestamp equal to the clock or before it, it is in active.
C21_ScheduledBoundaryStrict ==
    [][page'.now = page.now =>
          \A i \in DOMAIN page.tasks :
              ~Truthy(page.tasks[i].priority) =>
                  LET due == taskDueTs(page.tasks[i]) IN
                  /\ i \in Positions(page'.scheduled)
                        <=> (due.k = "finite" /\ due.n > page.now)
                  /\ (due.k = "finite" /\ due.n <= page.now)
                        => i \in Positions(page'.active)]_vars

\* A render has put a task due at this very minute into active and a task
\* due the minute after into scheduled.
C21_Witness ==
    /\ \E n \in DOMAIN page.active :
          taskDueTs(page.tasks[page.active[n]]) = Fin(page.now)
    /\ \E n \in DOMAIN page.scheduled :
          taskDueTs(page.tasks[page.scheduled[n]]) = Fin(page.now + 1)

\* The tasks an array of render holds, and the tasks a list shows, in order.
TasksAt(tasks, group) == [n \in DOMAIN group |-> tasks[group[n]]]
TasksShown(list) == [n \in DOMAIN list |-> list[n].task]

\* C22: after every render the Scheduled list shows the tasks of scheduled
\* in their order, and the Dashboard list shows the tasks of priority
\* followed by the tasks of active: every priority task stands before every
\* other task, and no task of scheduled is in the Dashboard.
C22_ListsShowGroups ==
    [][page'.now = page.now =>
          LET shown == TasksShown(page'.dashboardList) IN
          /\ TasksShown(page'.scheduledList)
                = TasksAt(page.tasks, page'.scheduled)
          /\ shown = TasksAt(page.tasks, page'.priority)
                        \o TasksAt(page.tasks, page'.active)
          /\ \A m, n \in DOMAIN shown :
                (m < n /\ Truthy(shown[n].priority))
                    => Truthy(shown[m].priority)
          /\ \A n \in DOMAIN shown :
                \A k \in DOMAIN page'.scheduled :
                    shown[n] # page.tasks[page'.scheduled[k]]]_vars

\* A render has filled the Scheduled list, and the Dashboard list with a
\* priority task and another task.
C22_Witness ==
    /\ page.scheduledList # <<>>
    /\ Len(page.dashboardList) = 2
    /\ Truthy(page.dashboardList[1].task.priority)
    /\ ~Truthy(page.dashboardList[2].task.priority)

\* The due timestamp of the task at a position of an array of render.
DueAt(tasks, group, n) == taskDueTs(tasks[group[n]])

\* C23: after every render, active is in descending order of the due
\* timestamp, a task without one counting as 0, and every task of active
\* without a due timestamp stands after every task of active that has one.
C23_ActiveSortedUndatedLast ==
    [][page'.now = page.now =>
          LET due(n) == DueAt(page.tasks, page'.active, n)
              ordinal(n) == IF due(n) = NaN THEN 0 ELSE due(n).n
          IN \A m, n \in DOMAIN page'.active :
                /\ m < n => ordinal(m) >= ordinal(n)
                /\ (due(m) = NaN /\ due(n) # NaN) => n < m]_vars

\* C24: after every render, every task of scheduled has a due timestamp,
\* and scheduled is in ascending order of it.
C24_ScheduledSortedAscending ==
    [][page'.now = page.now =>
          LET due(n) == DueAt(page.tasks, page'.scheduled, n) IN
          \A m, n \in DOMAIN page'.scheduled :
              /\ due(n) # NaN
              /\ m < n => due(m).n <= due(n).n]_vars

\* A task whose date or whose time is missing or empty.
LacksDateOrTime(task) == ~Truthy(task.date) \/ ~Truthy(task.time)

\* C29: a task without priority that lacks a date or a time has the due
\* timestamp NaN, and after every render it is in active and not in
\* scheduled.
C29_UndatedIsActive ==
    [][page'.now = page.now =>
          \A i \in DOMAIN page.tasks :
              (~Truthy(page.tasks[i].priority)
               /\ LacksDateOrTime(page.tasks[i])) =>
                  /\ taskDueTs(page.tasks[i]) = NaN
                  /\ i \in Positions(page'.active)
                  /\ i \notin Positions(page'.scheduled)]_vars

\* Before 1970, a render has put a task with a date and no time and a task
\* with a time and no date into active, next to a task in scheduled.
C29_Witness ==
    /\ page.now < 0
    /\ page.scheduled # <<>>
    /\ \E m, n \in DOMAIN page.active :
          /\ page.tasks[page.active[m]].time = EmptyStr
          /\ page.tasks[page.active[m]].date # EmptyStr
          /\ page.tasks[page.active[n]].date = EmptyStr
          /\ page.tasks[page.active[n]].time # EmptyStr

\* The number of tasks of a list whose field has the value, or another one.
CountWith(tasks, field, value) ==
    Cardinality({i \in DOMAIN tasks : tasks[i][field] = value})
CountWithout(tasks, field, value) ==
    Cardinality({i \in DOMAIN tasks : tasks[i][field] # value})

\* C25: the counts /metrics reports are those of the projection of the
\* log: total_tasks is the number of tasks, priority_tasks and
\* regular_tasks those with priority true and false, which add up to it,
\* tasks_with_dates and tasks_with_descriptions those with a date and a
\* description other than ""; on a log without lines all five are 0.
C25_MetricsMatchProjection ==
    (req.kind = "METRICS" /\ res.status = 200) =>
        LET tasks == Projection(file, now)
            m == res.metrics
        IN /\ m.total_tasks = Len(tasks)
           /\ m.priority_tasks = CountWith(tasks, "priority", Bool(TRUE))
           /\ m.regular_tasks = CountWith(tasks, "priority", Bool(FALSE))
           /\ m.priority_tasks + m.regular_tasks = m.total_tasks
           /\ m.tasks_with_dates = CountWithout(tasks, "date", EmptyStr)
           /\ m.tasks_with_descriptions
                = CountWithout(tasks, "description", EmptyStr)
           /\ Lines(file) = <<>> =>
                /\ m.total_tasks = 0
                /\ m.priority_tasks = 0
                /\ m.regular_tasks = 0
                /\ m.tasks_with_dates = 0
                /\ m.tasks_with_descriptions = 0

\* /metrics has counted a priority task and a task with a date on a log
\* that holds a delete event.
C25_Witness ==
    /\ req.kind = "METRICS"
    /\ res.status = 200
    /\ res.metrics.priority_tasks >= 1
    /\ res.metrics.regular_tasks >= 1
    /\ res.metrics.tasks_with_dates >= 1
    /\ res.metrics.tasks_with_dates < res.metrics.total_tasks
    /\ \E i \in DOMAIN Lines(file) : IsDelete(ParsedLines(file)[i])

\* C26: ensureEventFile creates the empty file when there is none, leaves
\* a file that exists as it is, whatever it holds, and called again, any
\* number of times, changes nothing more.
C26_EnsureIdempotent ==
    LET once == ensureEventFile(Disk)
        twice == ensureEventFile(once)
    IN /\ ~once.err
       /\ ~exists => (once.exists /\ once.data = <<>>)
       /\ exists => once = Disk
       /\ twice = once
       /\ ensureEventFile(twice) = once

\* A GET has called ensureEventFile on a log that ends in the middle of a
\* line.
C26_Witness ==
    /\ req.kind = "GET"
    /\ exists
    /\ file # <<>>
    /\ file[Len(file)] # LF

\* A line that is JSON and is neither a create nor a delete event.
NonEventLine(line) ==
    LET p == JSONparse(line) IN p.ok /\ ~IsCreate(p) /\ ~IsDelete(p)

\* C27: the lines that are JSON without being a create or delete event
\* count for nothing: the projection of the log is the projection of its
\* other lines, and reading it does not fail.
C27_NonEventLinesSkipped ==
    LET lines == Lines(file)
        others == SelectSeq(lines, LAMBDA l : ~NonEventLine(l))
    IN /\ Projection(file, now) = MapValues(Replay(others, 1, <<>>, now))
       /\ (req.kind = "GET" /\ \E i \in DOMAIN lines : NonEventLine(lines[i]))
            => res.status = 200

\* A GET has read a log in which such a line stands before a create
\* event, and lists the task of that event.
C27_Witness ==
    /\ req.kind = "GET"
    /\ \E i, j \in DOMAIN Lines(file) :
          /\ i < j
          /\ NonEventLine(Lines(file)[i])
          /\ IsCreate(ParsedLines(file)[j])
          /\ ParsedLines(file)[j].v.v.id \in TaskIds(res.tasks)

\* C28: every POST and DELETE that writes adds one line feed to the file
\* and one line to the log, whatever line feeds its fields or its id hold;
\* the task of the POST is in the projection with the name (trimmed), date,
\* time and description of the request, and the line of the DELETE is a
\* delete event with the id of the path.
C28_OneLinePerEvent ==
    [][(HandlerStep /\ Written) =>
          /\ Cardinality(Breaks(file', 1)) = Cardinality(Breaks(file, 1)) + 1
          /\ Len(Lines(file')) = Len(Lines(file)) + 1
          /\ req'.kind = "POST" =>
                \E task \in TasksWithId(Projection(file', now'), res'.id) :
                    /\ task.name = Str(Trim(req'.body.name.v))
                    /\ task.date = Supplied(req'.body.date)
                    /\ task.time = Supplied(req'.body.time)
                    /\ task.description = Supplied(req'.body.description)
          /\ req'.kind = "DELETE" =>
                LET last == ParsedLines(file')[Len(Lines(file'))] IN
                IsDelete(last) /\ EventId(last) = Str(req'.id)]_vars

\* A POST with a line feed in each field has been answered 201 on a log
\* that holds a delete event for an id with a line feed.
C28_Witness ==
    /\ req.kind = "POST"
    /\ res.status = 201
    /\ req.body = BodyNewlines
    /\ \E i \in DOMAIN Lines(file) :
          /\ IsDelete(ParsedLines(file)[i])
          /\ EventId(ParsedLines(file)[i]) = Str(GhostId)

\* The line j of the parsed log ps is a create event that follows a delete
\* event for its id and is the last event for that id.
RecreatedAt(ps, j) ==
    /\ IsCreate(ps[j])
    /\ \E i \in DOMAIN ps :
          i < j /\ IsDelete(ps[i]) /\ EventId(ps[i]) = EventId(ps[j])
    /\ \A k \in DOMAIN ps :
          (k > j /\ (IsCreate(ps[k]) \/ IsDelete(ps[k])))
              => EventId(ps[k]) # EventId(ps[j])

\* C30: a create event that stands in the log after a delete event for the
\* same id, with no later event for that id, has its task in the
\* projection, with the fields of that create event.
C30_CreateAfterDeleteRevives ==
    LET ps == ParsedLines(file) IN
    \A j \in DOMAIN ps :
        RecreatedAt(ps, j) =>
            /\ TaskOf(ps[j].v, now) \in TaskSet(Projection(file, now))
            /\ TasksWithId(Projection(file, now), EventId(ps[j]))
                 = {TaskOf(ps[j].v, now)}

\* A GET lists a task whose create event follows a delete event for its
\* id that no create event preceded.
C30_Witness ==
    LET ps == ParsedLines(file) IN
    /\ req.kind = "GET"
    /\ \E j \in DOMAIN ps :
          /\ RecreatedAt(ps, j)
          /\ \A i \in DOMAIN ps : i < j => ~IsCreate(ps[i])
          /\ EventId(ps[j]) \in TaskIds(res.tasks)

\* C31: the tasks of the projection of the log have pairwise different
\* ids, and there are at most as many of them as there are different ids
\* among the create events of the log.
C31_ProjectionIdsDistinct ==
    LET tasks == Projection(file, now)
        ps == ParsedLines(file)
        created == {EventId(ps[k]) : k \in {j \in DOMAIN ps : IsCreate(ps[j])}}
    IN /\ \A i \in DOMAIN tasks : \A j \in DOMAIN tasks :
            i # j => tasks[i].id # tasks[j].id
       /\ Len(tasks) <= Cardinality(created)

\* The lines of the log that inserted id into the Map as it stands at the
\* end of the replay: the create events for id after its last delete event.
Inserts(ps, id) ==
    {k \in DOMAIN ps :
        /\ IsCreate(ps[k]) /\ EventId(ps[k]) = id
        /\ \A d \in DOMAIN ps :
             IsDelete(ps[d]) /\ EventId(ps[d]) = id => d < k}

InsertedAt(ps, id) ==
    CHOOSE k \in Inserts(ps, id) : \A j \in Inserts(ps, id) : k <= j

InInsertionOrder(tasks, ps) ==
    \A i \in DOMAIN tasks : \A j \in DOMAIN tasks :
        i < j =>
          /\ Inserts(ps, tasks[i].id) # {}
          /\ Inserts(ps, tasks[j].id) # {}
          /\ InsertedAt(ps, tasks[i].id) < InsertedAt(ps, tasks[j].id)

\* C32: the tasks of the projection, and those a GET /api/tasks returns,
\* stand in the order of the log positions of the create events that first
\* inserted their ids since the last delete of the id: a repeated create
\* keeps the position, a create after a delete goes to the end.
C32_CreationOrder ==
    LET ps == ParsedLines(file) IN
    /\ InInsertionOrder(Projection(file, now), ps)
    /\ req.kind = "GET" /\ res.status = 200 =>
         /\ InInsertionOrder(res.tasks, ps)
         /\ TaskIds(res.tasks) = TaskIds(Projection(file, now))

\* A GET has returned two tasks, the second of them created before the
\* first, deleted and created again after it; the first was created twice.
C32_Witness ==
    LET ps == ParsedLines(file) IN
    /\ req.kind = "GET" /\ res.status = 200
    /\ Len(res.tasks) = 2
    /\ \E a, d, c \in DOMAIN ps :
         /\ a < d /\ d < c
         /\ IsCreate(ps[a]) /\ IsDelete(ps[d]) /\ IsCreate(ps[c])
         /\ EventId(ps[a]) = res.tasks[2].id
         /\ EventId(ps[d]) = res.tasks[2].id
         /\ EventId(ps[c]) = res.tasks[2].id
         /\ \E b \in DOMAIN ps :
              /\ a < b /\ b < d
              /\ IsCreate(ps[b]) /\ EventId(ps[b]) = res.tasks[1].id

\* A GET has returned two tasks, the first of them created again after the
\* creation of the second.
C32_WitnessRepeated ==
    LET ps == ParsedLines(file) IN
    /\ req.kind = "GET" /\ res.status = 200
    /\ Len(res.tasks) = 2
    /\ \E a, b, c \in DOMAIN ps :
         /\ a < b /\ b < c
         /\ IsCreate(ps[a]) /\ IsCreate(ps[b]) /\ IsCreate(ps[c])
         /\ EventId(ps[a]) = res.tasks[1].id
         /\ EventId(ps[b]) = res.tasks[2].id
         /\ EventId(ps[c]) = res.tasks[1].id

\* The notifications a step raises.
NewNotifications ==
    SubSeq(page'.notifications, Len(page.notifications) + 1,
           Len(page'.notifications))

\* Over the polls of a page, no two notifications are for the same id.
NotifiedOncePerId ==
    \A i \in DOMAIN page'.notifications : \A j \in DOMAIN page'.notifications :
        i # j => page'.notifications[i].id # page'.notifications[j].id

\* Every notification a poll raises is for a task of that poll without
\* priority whose due timestamp is a number not after the clock.
NotifiedOnlyWhenDue ==
    \A k \in DOMAIN NewNotifications :
        \E i \in DOMAIN page'.tasks :
            LET task == page'.tasks[i]
                due == taskDueTs(task)
            IN /\ Notification(task) = NewNotifications[k]
               /\ ~Truthy(task.priority)
               /\ due.k = "finite"
               /\ due.n <= page.now

\* A poll after an earlier one raises the notification of every task of
\* its list without priority that has come due since the earlier poll.
NotifiedByNextPoll ==
    page.lastPoll # <<>> /\ page'.lastPoll # page.lastPoll =>
        \A i \in DOMAIN page'.tasks :
            LET task == page'.tasks[i]
                due == taskDueTs(task)
            IN (/\ ~Truthy(task.priority)
                /\ due.k = "finite"
                /\ page.lastPoll[1] < due.n
                /\ due.n <= page.now)
               => \E k \in DOMAIN NewNotifications :
                     NewNotifications[k] = Notification(task)

\* C33: over the polls of one page, a due notification is raised at most
\* once per task id, only for a task without priority whose due timestamp
\* is valid and not after the clock of that poll, and a task that comes
\* due between two polls is notified by the first successful poll after
\* its due time.
C33_NotifiedOncePromptly ==
    [][/\ NotifiedOncePerId
       /\ NotifiedOnlyWhenDue
       /\ NotifiedByNextPoll]_vars

====
